---- MODULE Spec2Model ----
(***************************************************************************)
(* A model of the HotStuff consensus core (src/src/consensus.cpp) and of   *)
(* the part of the replica around it (src/src/hotstuff.cpp).               *)
(*                                                                         *)
(* Blocks are content-addressed, as in the storage of the replica: a       *)
(* block's hash is its content, the record of parent_hashes, qc, cmds and  *)
(* extra, and two blocks with the same content are the same block.         *)
(* A replica is a record holding HotStuffCore's members and `objs`, the    *)
(* Block objects of its storage by hash, each with the mutable fields of   *)
(* Block.  Every operation of the core is an operator from replica record  *)
(* to replica record; a thrown exception keeps the assignments made before *)
(* it and is named in `err`.                                               *)
(***************************************************************************)
EXTENDS Integers, Sequences, FiniteSets, TLC

\* ------------------------------------------------------------------ bounds
\* blocks other than genesis that exist, under Spec
MaxBlocks == 3

\* blocks other than genesis that exist, under SpecDeep
MaxDeep == 4

\* blocks other than genesis that exist, under SpecNet
MaxNet == 6

\* the largest argument of prune
MaxStaleness == 1

\* blocks that exist and are not in the replica's storage
MaxUnfetched == 1

\* blocks in storage that are not delivered
MaxUndelivered == 2

\* blocks whose votes are being collected (some received, no QC yet)
MaxCollecting == 1

\* blocks other than genesis that exist, under SpecPipe
MaxPipe == 3

\* proposals that wait for the delivery of one block; of votes, one waits
\* at a time
MaxWaiting == 1

\* The blocks of the one chain on which a replica receives proposals and
\* votes and prunes.
MaxChain == 4

\* The blocks the leader proposes in the run of a leader and its followers.
MaxHappy == 3

\* the commands clients submit, under SpecCmd
MaxCmds == 4

\* the replicas given to start(), under SpecStart
MaxStart == 12

\* --------------------------------------------------------------- constants
\* HotStuffBase::blk_size: the commands of one proposal
blk_size == 2

Replicas == 0 .. 3

\* the replicas whose votes arrive, under SpecPipe
PipeVoters == {1}

\* The number of faults of the textbook, a third of the other replicas.
third_of_peers(npeers) == npeers \div 3

\* start(): uint32_t nfaulty = peers.size() / 2
start_nfaulty(npeers) == npeers \div 2

\* on_init(): config.nmajority = 2 * nfaulty + 1; with nfaulty half the
\* number of peers it is far from the width of uint32_t
on_init_nmajority(nf) == 2 * nf + 1

\* start(): peers are the replicas other than the local one
nfaulty == start_nfaulty(Cardinality(Replicas) - 1)

\* on_init(): config.nmajority
nmajority == on_init_nmajority(nfaulty)

SeqRange(q) == {q[i] : i \in 1 .. Len(q)}

\* The queue taken from its first element on.
Forward(q) == q

\* commit_queue.rbegin() .. rend() in update()
Reverse(q) == [i \in 1 .. Len(q) |-> q[Len(q) + 1 - i]]

\* ------------------------------------------------------------------ blocks
\* The hashed content of a block.  qc is << >> when the block carries no
\* QC and << h >> when it carries a QC for the block h.
b0 == [parent_hashes |-> << >>, qc |-> << >>, cmds |-> << >>, extra |-> 0]

\* The null block_t.
Nil == [parent_hashes |-> << >>, qc |-> << >>, cmds |-> << >>, extra |-> 0 - 1]

\* qc->get_obj_hash() of a block that carries a QC
QcHash(h) == h.qc[1]

\* The height a block has once delivered: parents[0]->height + 1.
RECURSIVE HeightOf(_)
HeightOf(h) == IF h.parent_hashes = << >> THEN 0
               ELSE HeightOf(h.parent_hashes[1]) + 1

\* The commands of a block of height k: k mod 3 of them.
CmdsAt(k) == [i \in 1 .. (k % 3) |-> 10 * k + i]

NewContent(parents, qc, extra) ==
    [parent_hashes |-> parents, qc |-> qc,
     cmds |-> CmdsAt(HeightOf(parents[1]) + 1), extra |-> extra]

\* ------------------------------------------------------------ replica state
NoCert == [present |-> FALSE, parts |-> {}, computed |-> FALSE]

\* A Block object as storage->add_blk makes it from a serialized block:
\* nothing resolved, not delivered, undecided.
NewObj == [delivered |-> FALSE, parents |-> << >>, qc_ref |-> Nil,
           height |-> 0, decision |-> 0, voted |-> {}, self_qc |-> NoCert]

\* b0 after the constructor (Block(true, 1)), add_replica for every
\* replica, and on_init.
GenesisObj == [delivered |-> TRUE, parents |-> << >>, qc_ref |-> b0,
               height |-> 0, decision |-> 1, voted |-> Replicas,
               self_qc |-> [present |-> TRUE, parts |-> {}, computed |-> TRUE]]

\* HotStuffCore::HotStuffCore, then start(): add_replica, on_init
InitCore(rid) ==
    [ id       |-> rid,
      objs     |-> [h \in {b0} |-> GenesisObj],
      hqc      |-> b0,
      bexec    |-> b0,
      vheight  |-> 0,
      tails    |-> {b0},
      neg_vote |-> FALSE,
      \* the Finality events given to do_decide, in order
      fin      |-> << >>,
      \* what the call in progress has thrown, voted for and broadcast
      err      |-> "",
      vote_out |-> Nil,
      bcast    |-> Nil,
      \* history: the blocks voted for and the blocks committed, in order
      votes    |-> << >>,
      commits  |-> << >>,
      \* history: the blocks whose self_qc was computed here, in order
      qc_finished |-> << >>,
      \* HotStuffBase: the waiting tables, each a collection of entries
      \* [hash, waiters], waiters the callbacks attached in order
      blk_fetch_waiting    |-> {},
      blk_delivery_waiting |-> {},
      \* the promise::all of the deliveries in progress: conts holds the
      \* blocks whose on_deliver_blk is still to run, pms the promises each
      \* waits for
      conts    |-> {},
      pms      |-> {},
      \* history: the blocks whose verification resolved with false, the
      \* blocks HotStuffBase::on_deliver_blk ran for once and more than
      \* once, the blocks handed to on_receive_proposal or on_receive_vote
      \* by the handlers
      verify_false   |-> {},
      deliver_calls  |-> {},
      deliver_again  |-> {},
      handled        |-> {} ]

storage(s) == DOMAIN s.objs

\* The start of a handler: nothing thrown, voted or broadcast yet.
Enter(s) == [s EXCEPT !.err = "", !.vote_out = Nil, !.bcast = Nil]

\* EntityStorage::add_blk: the canonical instance when the hash is known
add_blk(s, h) ==
    IF h \in storage(s) THEN s
    ELSE [s EXCEPT !.objs = [g \in storage(s) \cup {h} |->
                                IF g = h THEN NewObj ELSE s.objs[g]]]

\* get_delivered_blk without the test of delivered.
IsFetchedBlk(s, h) == h \in storage(s)

\* HotStuffCore::get_delivered_blk does not throw
IsDeliveredBlk(s, h) == h \in storage(s) /\ s.objs[h].delivered

\* HotStuffCore::on_deliver_blk; st is the state after, valid the value
\* returned (FALSE as well when it throws: see st.err)
HotStuffCore_on_deliver_blk(s, b) ==
    IF s.objs[b].delivered THEN [st |-> s, valid |-> FALSE]
    ELSE
    LET ph  == b.parent_hashes
        bad == {i \in 1 .. Len(ph) : ~IsDeliveredBlk(s, ph[i])}
    IN  IF bad # {}
        THEN LET k == CHOOSE i \in bad : \A j \in bad : i <= j
             IN  [st |-> [s EXCEPT !.objs[b].parents = SubSeq(ph, 1, k - 1),
                                   !.err = "block not delivered"],
                  valid |-> FALSE]
        ELSE
        LET s1 == [s EXCEPT !.objs[b].parents = ph,
                            !.objs[b].height = s.objs[ph[1]].height + 1]
        IN  IF b.qc # << >> /\ QcHash(b) \notin storage(s)
            THEN [st |-> [s1 EXCEPT !.err = "block referred by qc not fetched"],
                  valid |-> FALSE]
            ELSE [st |-> [s1 EXCEPT
                            !.objs[b].qc_ref = IF b.qc # << >> THEN QcHash(b) ELSE @,
                            !.tails = (@ \ SeqRange(ph)) \cup {b},
                            !.objs[b].delivered = TRUE],
                  valid |-> TRUE]

\* update_hqc with >= for >.
update_hqc_geq(s, _hqc) ==
    IF s.objs[_hqc].height >= s.objs[s.hqc].height
    THEN [s EXCEPT !.hqc = _hqc]
    ELSE s

\* HotStuffCore::update_hqc
update_hqc(s, _hqc) ==
    IF s.objs[_hqc].height > s.objs[s.hqc].height
    THEN [s EXCEPT !.hqc = _hqc]
    ELSE s

\* The queue of update() without its loop: b alone.
CommitHead(s, b, queue) ==
    IF s.objs[b].height > s.objs[s.bexec].height
    THEN [queue |-> Append(queue, b), stop |-> s.bexec]
    ELSE [queue |-> queue, stop |-> b]

\* The loop of update() that collects the blocks to commit: from b down the
\* primary parents while b is higher than bexec.  The result is the queue
\* and the block the walk stops on; stop = Nil when the walk takes
\* parents[0] of a block without parents.
RECURSIVE CommitWalk(_, _, _)
CommitWalk(s, b, queue) ==
    IF s.objs[b].height > s.objs[s.bexec].height
    THEN IF s.objs[b].parents = << >>
         THEN [queue |-> Append(queue, b), stop |-> Nil]
         ELSE CommitWalk(s, s.objs[b].parents[1], Append(queue, b))
    ELSE [queue |-> queue, stop |-> b]

\* The Finality events of one committed block, in the order of do_decide:
\* Finality(id, 1, idx, blk->height, cmd, blk->get_hash()) with idx never
\* advanced from 0.
FinalityOf(s, b) ==
    [i \in 1 .. Len(b.cmds) |->
        [rid |-> s.id, decision |-> 1, cmd_idx |-> 0,
         cmd_height |-> s.objs[b].height, cmd_hash |-> b.cmds[i],
         blk_hash |-> b]]

\* The second loop of update(): the queue replayed from oldest to newest.
RECURSIVE CommitReplay(_, _)
CommitReplay(s, rq) ==
    IF rq = << >> THEN s
    ELSE LET b == Head(rq)
         IN  CommitReplay([s EXCEPT !.objs[b].decision = 1,
                                    !.commits = Append(@, b),
                                    !.fin = @ \o FinalityOf(s, b)],
                          Tail(rq))

\* update() without the test of the direct parent.
no_parent_test(s, blk, p) == FALSE

\* update(): "commit requires direct parent", the test that returns
not_direct_parent(s, blk, p) == p # s.objs[blk].qc_ref

\* update() with bexec = blk for bexec = p.
update_bexec_blk(s, nblk) ==
    LET blk == s.objs[nblk].qc_ref
    IN  IF blk = Nil THEN [s EXCEPT !.err = "empty qc_ref"]
        ELSE
        LET s1 == update_hqc(s, blk)
        IN  IF s1.objs[blk].qc_ref = Nil THEN s1
            ELSE IF s1.objs[blk].decision # 0 THEN s1
            ELSE IF s1.objs[blk].parents = << >>
                 THEN [s1 EXCEPT !.err = "parents[0] of a block without parents"]
            ELSE
            LET p == s1.objs[blk].parents[1]
            IN  IF s1.objs[p].decision # 0 THEN s1
                ELSE IF not_direct_parent(s1, blk, p) THEN s1
                ELSE
                LET w == CommitWalk(s1, p, << >>)
                IN  IF w.stop = Nil
                    THEN [s1 EXCEPT !.err = "parents[0] of a block without parents"]
                    ELSE IF w.stop # s1.bexec
                    THEN [s1 EXCEPT !.err = "safety breached"]
                    ELSE [CommitReplay(s1, Reverse(w.queue)) EXCEPT !.bexec = blk]

\* HotStuffCore::update
update(s, nblk) ==
    LET blk == s.objs[nblk].qc_ref
    IN  IF blk = Nil THEN [s EXCEPT !.err = "empty qc_ref"]
        ELSE
        LET s1 == update_hqc(s, blk)
        IN  IF s1.objs[blk].qc_ref = Nil THEN s1
            ELSE IF s1.objs[blk].decision # 0 THEN s1
            ELSE IF s1.objs[blk].parents = << >>
                 THEN [s1 EXCEPT !.err = "parents[0] of a block without parents"]
            ELSE
            LET p == s1.objs[blk].parents[1]
            IN  IF s1.objs[p].decision # 0 THEN s1
                ELSE IF not_direct_parent(s1, blk, p) THEN s1
                ELSE
                LET w == CommitWalk(s1, p, << >>)
                IN  IF w.stop = Nil
                    THEN [s1 EXCEPT !.err = "parents[0] of a block without parents"]
                    ELSE IF w.stop # s1.bexec
                    THEN [s1 EXCEPT !.err = "safety breached"]
                    ELSE [CommitReplay(s1, Reverse(w.queue)) EXCEPT !.bexec = p]

\* on_receive_vote without the test of a duplicate.
no_duplicate_test(s, voter, h) == FALSE

\* on_receive_vote(): !blk->voted.insert(vote.voter).second
duplicate_vote(s, voter, h) == voter \in s.objs[h].voted

\* on_receive_vote without the test of a QC that is complete.
quorum_never(s, h) == FALSE

\* on_receive_vote(): qsize >= config.nmajority, the test that returns
quorum_reached(s, h) == Cardinality(s.objs[h].voted) >= nmajority

\* HotStuffCore::on_receive_vote
on_receive_vote(s, voter, h) ==
    IF ~IsDeliveredBlk(s, h) THEN [s EXCEPT !.err = "block not delivered"]
    ELSE
    LET qsize == Cardinality(s.objs[h].voted)
    IN  IF quorum_reached(s, h) THEN s
        ELSE IF duplicate_vote(s, voter, h) THEN s
        ELSE
        LET s1 == [s EXCEPT
                     !.objs[h].voted = @ \cup {voter},
                     !.objs[h].self_qc = [present |-> TRUE,
                                          parts |-> @.parts \cup {voter},
                                          computed |-> @.computed]]
        IN  IF qsize + 1 = nmajority
            THEN update_hqc([s1 EXCEPT !.objs[h].self_qc.computed = TRUE,
                                       !.qc_finished = Append(@, h)], h)
            ELSE s1

\* The loop of on_receive_proposal: from b down the primary parents while b
\* is higher than pref; Nil when the walk takes parents[0] of a block
\* without parents.
RECURSIVE BranchWalk(_, _, _)
BranchWalk(s, b, pref) ==
    IF s.objs[b].height > s.objs[pref].height
    THEN IF s.objs[b].parents = << >> THEN Nil
         ELSE BranchWalk(s, s.objs[b].parents[1], pref)
    ELSE b

\* History: the replica signs a vote for b.
CastVote(s, b) == [s EXCEPT !.vote_out = b, !.votes = Append(@, b)]

\* The height test with >= for >.
higher_or_equal_vheight(s, bnew) == s.objs[bnew].height >= s.vheight

\* on_receive_proposal(): the first condition of a vote
higher_than_vheight(s, bnew) == s.objs[bnew].height > s.vheight

\* The branch test on heights in place of blocks.
on_same_height(s, b) == s.objs[b].height = s.objs[s.hqc].height

\* on_receive_proposal(): "on the same branch", b the block the walk from
\* bnew ends on
on_same_branch(s, b) == b = s.hqc

\* HotStuffCore::on_receive_proposal
on_receive_proposal(s0, bnew) ==
    LET s == Enter(s0)
    IN  IF ~s.objs[bnew].delivered THEN [s EXCEPT !.err = "block not delivered"]
        ELSE
        LET s1 == update(s, bnew)
        IN  IF s1.err # "" THEN s1
            ELSE IF higher_than_vheight(s1, bnew)
            THEN LET b == BranchWalk(s1, bnew, s1.hqc)
                 IN  IF b = Nil
                     THEN [s1 EXCEPT !.err = "parents[0] of a block without parents"]
                     ELSE IF on_same_branch(s1, b)
                     THEN LET s2 == [s1 EXCEPT !.vheight = s1.objs[bnew].height]
                          IN  IF ~s2.neg_vote THEN CastVote(s2, bnew) ELSE s2
                     ELSE s1
            ELSE s1

\* What on_receive_proposal(bnew) can leave when t is its state at the
\* moment a walk takes parents[0] of an empty vector, which is undefined:
\* the call ends there; or the read yields some pointer and the call goes
\* on, the branch walk ending off hqc, without a vote, or on hqc, with one.
\* Any other call leaves what it computed.
WalkOutcomes(t, bnew) ==
    IF t.err = "parents[0] of a block without parents"
    THEN LET go == [t EXCEPT !.err = ""]
             on == [go EXCEPT !.vheight = go.objs[bnew].height]
         IN  {t, go, IF ~on.neg_vote THEN CastVote(on, bnew) ELSE on}
    ELSE {t}

\* The block of on_propose without the QC of its first parent.
ProposedWithoutQc(s, parents, extra) == NewContent(parents, << >>, extra)

\* The block on_propose creates: it carries the QC of its first parent when
\* that parent has nmajority votes.
ProposedBlock(s, parents, extra) ==
    NewContent(parents,
               IF Cardinality(s.objs[parents[1]].voted) >= nmajority
               THEN << parents[1] >> ELSE << >>,
               extra)

\* The self-vote without its height test.
no_height_test(s, bnew) == FALSE

\* on_propose(): the test before the self-vote that throws
not_higher_than_vheight(s, bnew) == s.objs[bnew].height <= s.vheight

\* HotStuffCore::on_propose(cmds, parents, extra)
on_propose_cmds(s0, cmds, parents, extra) ==
    LET s == Enter(s0)
    IN  IF parents = << >> THEN [s EXCEPT !.err = "empty parents"]
        ELSE
        LET p    == parents[1]
            bnew == [ProposedBlock(s, parents, extra) EXCEPT !.cmds = cmds]
            \* storage->add_blk(new Block(parents, cmds, qc, extra,
            \*                            p->height + 1, qc_ref, nullptr))
            a    == add_blk([s EXCEPT !.tails = @ \ SeqRange(parents)], bnew)
            s1   == [a EXCEPT
                       !.objs[bnew].parents = parents,
                       !.objs[bnew].height = s.objs[p].height + 1,
                       !.objs[bnew].qc_ref = IF bnew.qc # << >> THEN p ELSE Nil,
                       !.objs[bnew].self_qc = [present |-> TRUE, parts |-> {},
                                               computed |-> FALSE]]
            d    == HotStuffCore_on_deliver_blk(s1, bnew).st
        IN  IF d.err # "" THEN d
            ELSE
            LET s2 == update(d, bnew)
            IN  IF s2.err # "" THEN s2
                ELSE IF not_higher_than_vheight(s2, bnew)
                THEN [s2 EXCEPT !.err = "new block should be higher than vheight"]
                ELSE
                LET s3 == [s2 EXCEPT !.vheight = s2.objs[bnew].height]
                    s4 == on_receive_vote(CastVote(s3, bnew), s3.id, bnew)
                IN  [s4 EXCEPT !.bcast = bnew]

\* on_propose with the commands of NewContent
on_propose(s0, parents, extra) ==
    on_propose_cmds(s0, IF parents = << >> THEN << >>
                        ELSE CmdsAt(HeightOf(parents[1]) + 1), parents, extra)

\* EntityStorage::try_release_blk(blk), called from prune with `stack` the
\* stack below its top and `start` the local of prune: the block leaves
\* storage, and is destroyed, when nothing but the storage and the top of
\* the stack refers to it.
try_release_blk(s, blk, stack, start) ==
    LET referred ==
            \/ blk \in SeqRange(stack)
            \/ blk = start
            \/ blk \in {s.hqc, s.bexec, b0}
            \/ blk \in s.tails
            \/ \E c \in storage(s) \ {blk} :
                   blk \in SeqRange(s.objs[c].parents) \/ s.objs[c].qc_ref = blk
    IN  IF referred \/ blk \notin storage(s) THEN s
        ELSE [s EXCEPT !.objs = [g \in storage(s) \ {blk} |-> s.objs[g]]]

\* prune that starts at bexec whatever the staleness.
PruneFromBexec(s, start, staleness) == start

\* The first loop of prune: `staleness` steps down the primary parents from
\* start; Nil when a block without parents is met first.
RECURSIVE PruneStart(_, _, _)
PruneStart(s, start, staleness) ==
    IF staleness = 0 THEN start
    ELSE IF s.objs[start].parents = << >> THEN Nil
    ELSE PruneStart(s, s.objs[start].parents[1], staleness - 1)

\* The second loop of prune: the depth-first walk over the stack.
RECURSIVE PruneLoop(_, _, _)
PruneLoop(s, stack, start) ==
    IF stack = << >> THEN s
    ELSE
    LET blk  == stack[Len(stack)]
        rest == SubSeq(stack, 1, Len(stack) - 1)
    IN  IF s.objs[blk].parents = << >>
        THEN PruneLoop(try_release_blk(s, blk, rest, start), rest, start)
        ELSE
        LET ps == s.objs[blk].parents
        IN  PruneLoop([s EXCEPT !.objs[blk].qc_ref = Nil,
                                !.objs[blk].parents = SubSeq(ps, 1, Len(ps) - 1)],
                      Append(stack, ps[Len(ps)]), start)

\* HotStuffCore::prune
prune(s0, staleness) ==
    LET s     == Enter(s0)
        start == PruneStart(s, s.bexec, staleness)
    IN  IF start = Nil THEN s
        ELSE PruneLoop([s EXCEPT !.objs[start].qc_ref = Nil], << start >>, start)

\* ------------------------------------------------------------------ system
\* blocks: the blocks other than genesis that exist, made by any replica;
\* rep: the state of the replicas that run the code above.
VARIABLES blocks, rep

vars == << blocks, rep >>

Hashes == blocks \cup {b0}

\* The end of a handler: the replica's state is stored; what the call threw,
\* voted and broadcast is read from the operator's result.
Ran(r, s) == rep' = [rep EXCEPT ![r] = Enter(s)]

\* The blocks for which a replica has collected nmajority verified votes.
Certified ==
    {b0} \cup {h \in blocks : \E r \in DOMAIN rep :
                  h \in storage(rep[r]) /\ Cardinality(rep[r].objs[h].voted) >= nmajority}

\* With at most nfaulty replicas signing against the protocol, two blocks
\* of one height do not both get nmajority signatures.
MayCertify(h) ==
    h \in Certified \/ \A g \in Certified : HeightOf(g) # HeightOf(h)

ParentLists(P, U) ==
    {<< p >> : p \in P} \cup {<< x[1], x[2] >> : x \in {y \in P \X U : y[1] # y[2]}}

\* EntityStorage::is_blk_delivered, is_blk_fetched
is_blk_delivered(s, h) == h \in storage(s) /\ s.objs[h].delivered

is_blk_fetched(s, h) == h \in storage(s)

Unfetched(r) == blocks \ storage(rep[r])

Undelivered(r) == {h \in storage(rep[r]) : ~rep[r].objs[h].delivered}

\* The blocks for which votes of other replicas have arrived and the
\* quorum is not reached.
Collecting(r) ==
    {h \in storage(rep[r]) :
        /\ Cardinality(rep[r].objs[h].voted) < nmajority
        /\ rep[r].objs[h].voted \ {r} # {}}

\* MsgRespBlock::postponed_parse / MsgPropose::postponed_parse: a block that
\* exists is put in storage (storage->add_blk).
RecvBlock(r, h) ==
    /\ h \in Unfetched(r)
    /\ Cardinality(Undelivered(r)) < MaxUndelivered
    /\ Ran(r, add_blk(Enter(rep[r]), h))
    /\ UNCHANGED blocks

\* Block::verify: what the promise resolves with, true or false by the
\* signatures of the QC, which are not modelled; true without a QC.
verify_results(h) == IF h.qc = << >> THEN {TRUE} ELSE BOOLEAN

\* HotStuffBase::on_deliver_blk, reached from async_deliver_blk once the
\* block is fetched, its qc_ref fetched, its parents delivered and
\* blk->verify resolved: with `verified`, which the continuation of
\* promise::all does not take.
DeliverBlk(r, h, verified) ==
    /\ h \in Undelivered(r)
    /\ \A i \in 1 .. Len(h.parent_hashes) : is_blk_delivered(rep[r], h.parent_hashes[i])
    /\ h.qc # << >> => is_blk_fetched(rep[r], QcHash(h))
    /\ Ran(r, HotStuffCore_on_deliver_blk(Enter(rep[r]), h).st)
    /\ UNCHANGED blocks

\* HotStuffBase::propose_handler: on_receive_proposal once the block is
\* delivered.
ReceiveProposal(r, h) ==
    /\ is_blk_delivered(rep[r], h)
    /\ \E t \in WalkOutcomes(on_receive_proposal(rep[r], h), h) : Ran(r, t)
    /\ UNCHANGED blocks

\* The voters whose vote for h can reach r next: a replica votes once, r
\* itself only for a block it has signed; of the others the least stands
\* for any (on_receive_vote does not look at who the voter is).
NextVoters(r, h) ==
    LET fresh == {v \in Replicas \ rep[r].objs[h].voted :
                     v = r => h \in SeqRange(rep[r].votes)}
    IN  {v \in fresh : \A w \in fresh : v <= w}

\* HotStuffBase::vote_handler: on_receive_vote once the block is delivered
\* and the vote verified.  More than nfaulty votes for a block include the
\* vote of a replica that runs the code, and update() lets none vote for a
\* block without a QC.
ReceiveVote(r, voter, h) ==
    /\ is_blk_delivered(rep[r], h)
    /\ voter \in rep[r].objs[h].voted \cup NextVoters(r, h)
    /\ Cardinality(rep[r].objs[h].voted \cup {voter}) > nfaulty => h.qc # << >>
    /\ Cardinality(rep[r].objs[h].voted \cup {voter}) >= nmajority => MayCertify(h)
    /\ Cardinality(Collecting(r) \cup {h}) <= MaxCollecting
    /\ Ran(r, on_receive_vote(Enter(rep[r]), voter, h))
    /\ UNCHANGED blocks

\* The command handler of start(): on_propose(cmds, pmaker->get_parents())
Propose(r, parents, extra) ==
    /\ Cardinality(blocks) < MaxBlocks
    /\ ProposedBlock(rep[r], parents, extra) \notin blocks
    /\ blocks' = blocks \cup {ProposedBlock(rep[r], parents, extra)}
    /\ Ran(r, on_propose(rep[r], parents, extra))

ProposeNoParents(r) ==
    /\ Ran(r, on_propose(rep[r], << >>, 0))
    /\ UNCHANGED blocks

Prune(r, staleness) ==
    /\ Ran(r, prune(rep[r], staleness))
    /\ UNCHANGED blocks

\* A replica that is not modelled by its code makes a block.  The QC it
\* carries is for any block: async_deliver_blk starts blk->verify and calls
\* on_deliver_blk when it resolves, whatever its result.
EnvPropose(parents, qc, extra, max) ==
    /\ Cardinality(blocks) < max
    /\ \A r \in DOMAIN rep : Cardinality(Unfetched(r)) < MaxUnfetched
    /\ NewContent(parents, qc, extra) \notin blocks
    /\ blocks' = blocks \cup {NewContent(parents, qc, extra)}
    /\ UNCHANGED rep

Init ==
    /\ blocks = {}
    /\ rep = [r \in {0} |-> InitCore(r)]

Next ==
    \/ \E r \in DOMAIN rep, h \in Hashes : RecvBlock(r, h)
    \/ \E r \in DOMAIN rep, h \in Hashes : \E ok \in verify_results(h) : DeliverBlk(r, h, ok)
    \/ \E r \in DOMAIN rep, h \in Hashes : ReceiveProposal(r, h)
    \/ \E r \in DOMAIN rep, h \in Hashes, v \in Replicas : ReceiveVote(r, v, h)
    \/ \E r \in DOMAIN rep :
           \E ps \in ParentLists({h \in Hashes : is_blk_delivered(rep[r], h)}, rep[r].tails) :
               Propose(r, ps, 0)
    \/ \E r \in DOMAIN rep : ProposeNoParents(r)
    \/ \E r \in DOMAIN rep, st \in 0 .. MaxStaleness : Prune(r, st)
    \/ \E p \in Hashes, qc \in {<< >>} \cup {<< h >> : h \in Hashes} :
           EnvPropose(<< p >>, qc, 0, MaxBlocks)

\* The replica with every handler, among few blocks.
Spec == Init /\ [][Next]_vars

NextDeep ==
    \/ \E r \in DOMAIN rep, h \in Hashes : RecvBlock(r, h)
    \/ \E r \in DOMAIN rep, h \in Hashes : \E ok \in verify_results(h) : DeliverBlk(r, h, ok)
    \/ \E r \in DOMAIN rep, h \in Hashes : ReceiveProposal(r, h)
    \/ \E r \in DOMAIN rep, st \in 0 .. MaxStaleness : Prune(r, st)
    \/ \E p \in Hashes, qc \in {<< >>} \cup {<< h >> : h \in Hashes} :
           EnvPropose(<< p >>, qc, 0, MaxDeep)

\* The replica that neither proposes nor collects votes, among more blocks.
SpecDeep == Init /\ [][NextDeep]_vars

\* A proposal that can be handled at once: its block is new to the replica,
\* the parents are delivered and the block of its QC is fetched.
ProposalInOrder(r, h) ==
    /\ h \in Unfetched(r)
    /\ \A i \in 1 .. Len(h.parent_hashes) : is_blk_delivered(rep[r], h.parent_hashes[i])
    /\ h.qc # << >> => is_blk_fetched(rep[r], QcHash(h))

\* HotStuffBase::propose_handler for a proposal whose block is new to the
\* replica and arrives after the blocks it refers to: the block is parsed
\* into storage, async_deliver_blk delivers it, on_receive_proposal runs.
HandleProposal(r, h, verified) ==
    /\ ProposalInOrder(r, h)
    /\ LET d == HotStuffCore_on_deliver_blk(add_blk(Enter(rep[r]), h), h)
       IN  Ran(r, IF d.valid THEN on_receive_proposal(d.st, h) ELSE d.st)
    /\ UNCHANGED blocks

\* A replica that is not modelled by its code proposes a block carrying a
\* QC for its parent, once every block made so far has reached a replica;
\* extra tells apart two such blocks on one parent.
NetPropose(p, extra) ==
    /\ Cardinality(blocks) < MaxNet
    /\ \A h \in blocks : \E r \in DOMAIN rep : is_blk_fetched(rep[r], h)
    /\ extra # 0 => NewContent(<< p >>, << p >>, 0) \in blocks
    /\ NewContent(<< p >>, << p >>, extra) \notin blocks
    /\ blocks' = blocks \cup {NewContent(<< p >>, << p >>, extra)}
    /\ UNCHANGED rep

InitNet ==
    /\ blocks = {}
    /\ rep = [r \in {0, 1} |-> InitCore(r)]

NextNet ==
    \/ \E r \in DOMAIN rep, h \in Hashes : \E ok \in verify_results(h) :
           HandleProposal(r, h, ok)
    \/ \E p \in Hashes, extra \in {0, 1} : NetPropose(p, extra)

\* Two replicas that receive proposals; the blocks are made by the others.
SpecNet == InitNet /\ [][NextNet]_vars

\* -------------------------------------------------- one chain, with votes
\* The block on parent p that carries the QC of p.
ChainBlock(p) == NewContent(<< p >>, << p >>, 0)

\* A replica that is not modelled by its code extends the chain by the
\* block that carries the QC of its parent.
ChainPropose(p) ==
    /\ Cardinality(blocks) < MaxChain
    /\ ChainBlock(p) \notin blocks
    /\ blocks' = blocks \cup {ChainBlock(p)}
    /\ UNCHANGED rep

NextChain ==
    \/ \E r \in DOMAIN rep, h \in Hashes : \E ok \in verify_results(h) :
           HandleProposal(r, h, ok)
    \/ \E r \in DOMAIN rep, h \in Hashes, v \in Replicas : ReceiveVote(r, v, h)
    \/ \E r \in DOMAIN rep, st \in 0 .. MaxStaleness : Prune(r, st)
    \/ \E p \in Hashes : ChainPropose(p)

\* The replica that receives the proposals of one chain in order, and
\* votes for its blocks of the others, and prunes.
SpecChain == Init /\ [][NextChain]_vars

\* ------------------------------------------------ a chain that skips a QC
\* The blocks of a leader that, after B1 and B2, proposes B3 with the QC
\* of B1 again, and then B4 and B5 each with the QC of its parent.
SkipB1 == ChainBlock(b0)

SkipB2 == ChainBlock(SkipB1)

SkipB3 == NewContent(<< SkipB2 >>, << SkipB1 >>, 0)

SkipB4 == ChainBlock(SkipB3)

SkipB5 == ChainBlock(SkipB4)

SkipChain == << SkipB1, SkipB2, SkipB3, SkipB4, SkipB5 >>

\* The leader, which is not modelled by its code, proposes the next block.
SkipPropose ==
    \E i \in 1 .. Len(SkipChain) :
        /\ SkipChain[i] \notin blocks
        /\ i > 1 => SkipChain[i - 1] \in blocks
        /\ blocks' = blocks \cup {SkipChain[i]}
        /\ UNCHANGED rep

\* A block reaches the replica after its parents have.
SkipRecv ==
    \E r \in DOMAIN rep, h \in Hashes :
        /\ \A i \in 1 .. Len(h.parent_hashes) : is_blk_fetched(rep[r], h.parent_hashes[i])
        /\ RecvBlock(r, h)

SkipDeliver ==
    \E r \in DOMAIN rep, h \in Hashes : \E ok \in verify_results(h) : DeliverBlk(r, h, ok)

SkipReceive == \E r \in DOMAIN rep, h \in Hashes : ReceiveProposal(r, h)

NextSkip == SkipPropose \/ SkipRecv \/ SkipDeliver \/ SkipReceive

\* A replica that receives the blocks and the proposals of that chain.
SpecSkip == Init /\ [][NextSkip]_vars

\* A proposal waits whose handling changes the state of the replica.
SkipWaiting ==
    \E r \in DOMAIN rep, h \in Hashes :
        is_blk_delivered(rep[r], h) /\ Enter(on_receive_proposal(rep[r], h)) # rep[r]

\* The same where the leader goes on proposing and every message sent is
\* delivered: weak fairness of the proposing and of each handler.  For
\* on_receive_proposal WF_vars(A) is written out, with SkipWaiting for
\* ENABLED <<A>>_vars.
SpecSkipLive ==
    /\ SpecSkip
    /\ WF_vars(SkipPropose)
    /\ WF_vars(SkipRecv)
    /\ WF_vars(SkipDeliver)
    /\ []<>(~SkipWaiting) \/ []<><<SkipReceive>>_vars

\* ------------------------------------------------- a leader and its followers
\* pmaker->get_proposer(): the leader of the run.
Leader == 0

\* The command handler of start() at the leader: pmaker->beat() resolves
\* with the leader itself and on_propose runs on pmaker->get_parents(), the
\* block proposed last, once the votes for it have made its QC.
LeaderReady(r) ==
    /\ r = Leader
    /\ Cardinality(blocks) < MaxHappy
    /\ rep[r].tails = {rep[r].hqc}

LeaderPropose(r) ==
    /\ LeaderReady(r)
    /\ blocks' = blocks \cup {ProposedBlock(rep[r], << rep[r].hqc >>, 0)}
    /\ Ran(r, on_propose(rep[r], << rep[r].hqc >>, 0))

\* do_vote(prop.proposer, vote), then vote_handler at the proposer: the
\* vote a follower has cast for h reaches the leader, which has delivered h.
DeliverVote(v, h) ==
    /\ v # Leader
    /\ h \in SeqRange(rep[v].votes)
    /\ v \notin rep[Leader].objs[h].voted
    /\ Ran(Leader, on_receive_vote(Enter(rep[Leader]), v, h))
    /\ UNCHANGED blocks

InitHappy ==
    /\ blocks = {}
    /\ rep = [r \in Replicas |-> InitCore(r)]

NextHappy ==
    \/ \E r \in DOMAIN rep : LeaderPropose(r)
    \/ \E r \in DOMAIN rep, h \in Hashes : \E ok \in verify_results(h) :
           HandleProposal(r, h, ok)
    \/ \E v \in DOMAIN rep, h \in Hashes : DeliverVote(v, h)

\* Four replicas, the leader proposing and the others voting.
SpecHappy == InitHappy /\ [][NextHappy]_vars

HappyPropose == \E r \in DOMAIN rep : LeaderPropose(r)

HappyHandle ==
    \E r \in DOMAIN rep, h \in Hashes : \E ok \in verify_results(h) :
        HandleProposal(r, h, ok)

HappyVote == \E v \in DOMAIN rep, h \in Hashes : DeliverVote(v, h)

\* The same where every message sent is delivered and the leader goes on
\* proposing: the event loop runs every handler whose message has arrived,
\* which is weak fairness of each of the three.  For the first two
\* WF_vars(A) is written out as []<>~ENABLED <<A>>_vars \/ []<><<A>>_vars
\* with the guard of A for ENABLED <<A>>_vars; both change the state
\* whenever their guard holds.
SpecHappyLive ==
    /\ SpecHappy
    /\ \/ []<>(~\E r \in DOMAIN rep : LeaderReady(r))
       \/ []<><<HappyPropose>>_vars
    /\ \/ []<>(~\E r \in DOMAIN rep, h \in Hashes : ProposalInOrder(r, h))
       \/ []<><<HappyHandle>>_vars
    /\ WF_vars(HappyVote)

\* ------------------------------------------------- fetch and deliver pipeline
\* A callback attached with then() to a promise of a waiting table:
\*   "deliver"      the continuation of async_deliver_blk(blk), on the fetch
\*                  of blk
\*   "all_fetch"    promise::all of the delivery of blk, on the fetch of the
\*                  block its QC is for
\*   "all_deliver"  promise::all of the delivery of blk, on the delivery of
\*                  a parent
\*   "proposal"     propose_handler: on_receive_proposal(blk)
\*   "vote"         vote_handler: on_receive_vote of voter for blk, the
\*                  vote verified; "badvote" when its verification failed
Waiter(kind, blk, dep, voter) ==
    [kind |-> kind, blk |-> blk, dep |-> dep, voter |-> voter]

\* The entries of a waiting table for one hash.
Entries(table, h) == {e \in table : e.hash = h}

\* then() on the promise of entry e
AttachWaiter(table, e, w) ==
    (table \ {e}) \cup {[e EXCEPT !.waiters = Append(@, w)]}

\* The lookup of async_fetch_blk and async_deliver_blk that always misses.
FindNoEntry(table, h) == {}

\* async_fetch_blk / async_deliver_blk: it = blk_*_waiting.find(blk_hash),
\* the empty set for end()
FindWaiting(table, h) == Entries(table, h)

\* BlockFetchContext::add_replica(replica_id, fetch_now) on entry e: the
\* first registration sends ReqBlock to the replica; nreq counts the
\* ReqBlock messages sent for the entry.
add_replica(e) ==
    [e EXCEPT !.nreplicas = @ + 1,
              !.nreq = IF e.nreplicas = 0 THEN @ + 1 ELSE @]

\* The promises the promise::all of the delivery of h still waits for.
PmsOf(s, h) == {x \in s.pms : x.of = h}

\* The promises of the continuation without the deliveries of the parents.
PmsNoParents(s, h) ==
    {[of |-> h, kind |-> "fetch", blk |-> QcHash(h)] :
         x \in {1} \cap (IF h.qc # << >> /\ ~is_blk_fetched(s, QcHash(h))
                         THEN {1} ELSE {})}
    \cup (IF h # b0 THEN {[of |-> h, kind |-> "verify", blk |-> h]} ELSE {})

\* What the continuation of async_deliver_blk(h) has to wait for: the fetch
\* of the block the QC is for, the delivery of each parent, blk->verify.
NewPms(s, h) ==
    {[of |-> h, kind |-> "fetch", blk |-> QcHash(h)] :
         x \in {1} \cap (IF h.qc # << >> /\ ~is_blk_fetched(s, QcHash(h))
                         THEN {1} ELSE {})}
    \cup {[of |-> h, kind |-> "deliver", blk |-> h.parent_hashes[i]] :
            i \in {j \in 1 .. Len(h.parent_hashes) :
                      ~is_blk_delivered(s, h.parent_hashes[j])}}
    \cup (IF h # b0 THEN {[of |-> h, kind |-> "verify", blk |-> h]} ELSE {})

RECURSIVE async_fetch_blk(_, _, _)
RECURSIVE async_deliver_blk(_, _, _)
RECURSIVE DeliverParents(_, _, _)
RECURSIVE fetched_then(_, _)
RECURSIVE HotStuffBase_on_deliver_blk(_, _)
RECURSIVE Settle(_, _, _)
RECURSIVE RunWaiters(_, _, _)

\* One callback w runs, its promise resolved (how = "resolve") or rejected
\* (how = "reject"); a callback given to then() without a rejection handler
\* does not run on rejection.  Nothing runs once an exception is on its way
\* out of the handler.
Settle(s, w, how) ==
    IF s.err # "" THEN s
    ELSE IF w.kind = "deliver"
    THEN IF how = "resolve" THEN fetched_then(s, w.blk) ELSE s
    ELSE IF w.kind \in {"all_fetch", "all_deliver"}
    THEN IF w.blk \notin s.conts THEN s
         ELSE IF how = "reject"
         THEN [s EXCEPT !.conts = @ \ {w.blk}, !.pms = @ \ PmsOf(s, w.blk)]
         ELSE
         LET k  == IF w.kind = "all_fetch" THEN "fetch" ELSE "deliver"
             s1 == [s EXCEPT !.pms = @ \ {x \in PmsOf(s, w.blk) :
                                               x.kind = k /\ x.blk = w.dep}]
         IN  IF PmsOf(s1, w.blk) = {}
             THEN HotStuffBase_on_deliver_blk(
                      [s1 EXCEPT !.conts = @ \ {w.blk}], w.blk)
             ELSE s1
    ELSE IF how = "reject" THEN s
    ELSE IF w.kind = "proposal"
    THEN on_receive_proposal([s EXCEPT !.handled = @ \cup {w.blk}], w.blk)
    ELSE IF w.kind = "vote"
    THEN on_receive_vote([s EXCEPT !.handled = @ \cup {w.blk}], w.voter, w.blk)
    ELSE s

\* resolve() or reject() of a promise: its callbacks in the order attached
RunWaiters(s, ws, how) ==
    IF ws = << >> THEN s
    ELSE RunWaiters(Settle(s, Head(ws), how), Tail(ws), how)

\* HotStuffBase::async_fetch_blk(blk_hash, replica_id).then(w)
async_fetch_blk(s, h, w) ==
    IF is_blk_fetched(s, h) THEN Settle(s, w, "resolve")
    ELSE
    LET found == FindWaiting(s.blk_fetch_waiting, h)
        e     == IF found = {}
                 THEN [hash |-> h, waiters |-> << >>, nreplicas |-> 0, nreq |-> 0]
                 ELSE CHOOSE x \in found : TRUE
        e1    == [add_replica(e) EXCEPT !.waiters = Append(@, w)]
    IN  [s EXCEPT !.blk_fetch_waiting =
                      IF found = {} THEN @ \cup {e1} ELSE (@ \ {e}) \cup {e1}]

\* The loop of the continuation over the parents: async_deliver_blk(phash)
DeliverParents(s, h, i) ==
    IF i > Len(h.parent_hashes) THEN s
    ELSE DeliverParents(
             async_deliver_blk(s, h.parent_hashes[i],
                               Waiter("all_deliver", h, h.parent_hashes[i], 0 - 1)),
             h, i + 1)

\* The continuation of async_deliver_blk once blk is fetched: the promises
\* pms are made and promise::all(pms).then(on_deliver_blk(blk)) waits for
\* them.
fetched_then(s, h) ==
    LET s0 == [s EXCEPT !.conts = @ \cup {h}, !.pms = @ \cup NewPms(s, h)]
        s1 == IF h.qc # << >>
              THEN async_fetch_blk(s0, QcHash(h),
                                   Waiter("all_fetch", h, QcHash(h), 0 - 1))
              ELSE s0
    IN  DeliverParents(s1, h, 1)

\* HotStuffBase::async_deliver_blk(blk_hash, replica_id).then(w)
async_deliver_blk(s, h, w) ==
    IF is_blk_delivered(s, h) THEN Settle(s, w, "resolve")
    ELSE
    LET found == FindWaiting(s.blk_delivery_waiting, h)
    IN  IF found # {}
        THEN [s EXCEPT !.blk_delivery_waiting =
                           AttachWaiter(@, CHOOSE x \in found : TRUE, w)]
        ELSE
        LET pm == [hash |-> h, waiters |-> << >>]
            s1 == [s EXCEPT !.blk_delivery_waiting = @ \cup {pm}]
            s2 == async_fetch_blk(s1, h, Waiter("deliver", h, h, 0 - 1))
        IN  [s2 EXCEPT !.blk_delivery_waiting = AttachWaiter(@, pm, w)]

\* HotStuffBase::on_deliver_blk
HotStuffBase_on_deliver_blk(s, h) ==
    LET s0 == [s EXCEPT !.deliver_calls = @ \cup {h},
                        !.deliver_again = IF h \in s.deliver_calls
                                          THEN @ \cup {h} ELSE @]
    IN  IF \E i \in 1 .. Len(h.parent_hashes) :
               ~is_blk_delivered(s0, h.parent_hashes[i])
        THEN [s0 EXCEPT !.err = "assert(storage->is_blk_delivered(p))"]
        ELSE
        LET d     == HotStuffCore_on_deliver_blk(s0, h)
            found == Entries(d.st.blk_delivery_waiting, h)
        IN  IF d.st.err # "" \/ found = {} THEN d.st
            ELSE
            LET it == CHOOSE x \in found : TRUE
                s1 == RunWaiters(d.st, it.waiters,
                                 IF d.valid THEN "resolve" ELSE "reject")
            IN  IF s1.err # "" THEN s1
                ELSE [s1 EXCEPT !.blk_delivery_waiting = @ \ {it}]

\* HotStuffBase::on_fetch_blk
on_fetch_blk(s, h) ==
    LET found == Entries(s.blk_fetch_waiting, h)
    IN  IF found = {} THEN s
        ELSE
        LET it == CHOOSE x \in found : TRUE
            s1 == RunWaiters(s, it.waiters, "resolve")
        IN  IF s1.err # "" THEN s1
            ELSE [s1 EXCEPT !.blk_fetch_waiting = @ \ {it}]

\* HotStuffBase::propose_handler: the proposal is parsed, its block put in
\* storage, and on_receive_proposal waits for the delivery of the block.
propose_handler(s0, h) ==
    async_deliver_blk(add_blk(Enter(s0), h), h, Waiter("proposal", h, h, 0 - 1))

\* HotStuffBase::vote_handler: on_receive_vote waits for the delivery of
\* the block and the verification of the vote; ok is what v->verify
\* resolves with.
vote_handler(s0, voter, h, ok) ==
    async_deliver_blk(Enter(s0), h,
                      Waiter(IF ok THEN "vote" ELSE "badvote", h, h, voter))

\* HotStuffBase::resp_blk_handler for a message of one block
resp_blk_handler(s0, h) == on_fetch_blk(add_blk(Enter(s0), h), h)

\* blk->verify of the delivery of h resolves with ok.
verify_done(s0, h, ok) ==
    LET s  == Enter(s0)
        s1 == [s EXCEPT !.pms = @ \ {[of |-> h, kind |-> "verify", blk |-> h]},
                        !.verify_false = IF ok THEN @ ELSE @ \cup {h}]
    IN  IF PmsOf(s1, h) = {}
        THEN HotStuffBase_on_deliver_blk([s1 EXCEPT !.conts = @ \ {h}], h)
        ELSE s1

\* The end of a handler of the replica process: an exception that leaves
\* the handler ends the process, err names it from then on.
Handled(r, s) == rep' = [rep EXCEPT ![r] = s]

Alive(r) == rep[r].err = ""

\* The callbacks of one kind waiting for the delivery of h.
WaitingFor(s, h, kinds) ==
    {x \in UNION {{<< e, k >> : k \in 1 .. Len(e.waiters)} :
                     e \in Entries(s.blk_delivery_waiting, h)} :
        x[1].waiters[x[2]].kind \in kinds}

\* A Proposal message for a block that exists arrives.
ProposeMsg(r, h) ==
    /\ Alive(r)
    /\ h \in blocks
    /\ Cardinality(WaitingFor(rep[r], h, {"proposal"})) < MaxWaiting
    /\ Handled(r, propose_handler(rep[r], h))
    /\ UNCHANGED blocks

\* A Vote message arrives for a block that exists and is not delivered.
VoteMsg(r, voter, h, ok) ==
    /\ Alive(r)
    /\ h \in blocks
    /\ voter # r
    /\ ~is_blk_delivered(rep[r], h)
    /\ \A g \in blocks : WaitingFor(rep[r], g, {"vote", "badvote"}) = {}
    /\ Handled(r, vote_handler(rep[r], voter, h, ok))
    /\ UNCHANGED blocks

\* A RespBlock message with a block that exists arrives, asked for or not.
RespBlockMsg(r, h) ==
    /\ Alive(r)
    /\ h \in blocks
    /\ \/ ~is_blk_fetched(rep[r], h)
       \/ Entries(rep[r].blk_fetch_waiting, h) # {}
    /\ Handled(r, resp_blk_handler(rep[r], h))
    /\ UNCHANGED blocks

\* The verification of a block in delivery ends.
VerifyDone(r, h, ok) ==
    /\ Alive(r)
    /\ [of |-> h, kind |-> "verify", blk |-> h] \in rep[r].pms
    /\ Handled(r, verify_done(rep[r], h, ok))
    /\ UNCHANGED blocks

\* The replica proposes on a delivered block; the block it makes may be one
\* another replica has made with the same content.
LocalPropose(r, p) ==
    /\ Alive(r)
    /\ is_blk_delivered(rep[r], p)
    /\ ~is_blk_delivered(rep[r], ProposedBlock(rep[r], << p >>, 0))
    /\ Cardinality(blocks \cup {ProposedBlock(rep[r], << p >>, 0)}) <= MaxPipe
    /\ blocks' = blocks \cup {ProposedBlock(rep[r], << p >>, 0)}
    /\ Handled(r, on_propose(rep[r], << p >>, 0))

\* A replica that is not modelled by its code makes a block.
PipeEnv(p, qc) ==
    /\ Cardinality(blocks) < MaxPipe
    /\ NewContent(<< p >>, qc, 0) \notin blocks
    /\ blocks' = blocks \cup {NewContent(<< p >>, qc, 0)}
    /\ UNCHANGED rep

NextPipe ==
    \/ \E r \in DOMAIN rep, h \in Hashes : ProposeMsg(r, h)
    \/ \E r \in DOMAIN rep, h \in Hashes, v \in PipeVoters, ok \in BOOLEAN :
           VoteMsg(r, v, h, ok)
    \/ \E r \in DOMAIN rep, h \in Hashes : RespBlockMsg(r, h)
    \/ \E r \in DOMAIN rep, h \in Hashes : \E ok \in verify_results(h) :
           VerifyDone(r, h, ok)
    \/ \E r \in DOMAIN rep, p \in Hashes : LocalPropose(r, p)
    \/ \E p \in Hashes : \E qc \in {<< >>, << p >>} : PipeEnv(p, qc)

\* One replica with its handlers of Proposal, Vote and RespBlock messages
\* and the fetch and deliver pipeline behind them.
SpecPipe == Init /\ [][NextPipe]_vars

\* ------------------------------------------------------------------ claims
\* C1: no two replicas that run the code commit different blocks of one
\* height, whatever the other replicas send them.
C1_Agreement ==
    \A r1, r2 \in DOMAIN rep :
        \A b \in SeqRange(rep[r1].commits) \cup {rep[r1].bexec} :
            \A c \in SeqRange(rep[r2].commits) \cup {rep[r2].bexec} :
                HeightOf(b) = HeightOf(c) => b = c

\* The parent lists on_propose can be called with in this state, for a
\* block that does not exist yet.
ProposeInputs(r) ==
    {ps \in ParentLists({h \in Hashes : is_blk_delivered(rep[r], h)}, rep[r].tails) :
        ProposedBlock(rep[r], ps, 0) \notin blocks}

\* The ancestor of b at the height of hqc, by primary parents, is hqc.
ExtendsHqc(s, b) == BranchWalk(s, b, s.hqc) = s.hqc

\* C2: every vote a replica casts, the vote on_receive_proposal sends and
\* the self-vote of on_propose alike, is for a block higher than vheight at
\* that moment whose ancestor at the height of hqc is hqc.
C2_VoteSafetyRule ==
    \A r \in DOMAIN rep :
        /\ \A h \in Hashes : is_blk_delivered(rep[r], h) =>
              LET t == on_receive_proposal(rep[r], h)
              IN  t.vote_out # Nil =>
                     /\ t.objs[h].height > rep[r].vheight
                     /\ ExtendsHqc(t, h)
        /\ \A ps \in ProposeInputs(r) :
              LET t == on_propose(rep[r], ps, 0)
              IN  t.vote_out # Nil =>
                     /\ t.objs[t.vote_out].height > rep[r].vheight
                     /\ ExtendsHqc(t, t.vote_out)

\* C2 as amended: the vote sent from on_receive_proposal is for a block
\* higher than vheight whose ancestor at the height of hqc is hqc; the
\* self-vote of on_propose is for a block higher than vheight.
C2_VoteRuleAmended ==
    \A r \in DOMAIN rep :
        /\ \A h \in Hashes : is_blk_delivered(rep[r], h) =>
              LET t == on_receive_proposal(rep[r], h)
              IN  t.vote_out # Nil =>
                     /\ t.vote_out = h
                     /\ t.objs[h].height > rep[r].vheight
                     /\ ExtendsHqc(t, h)
        /\ \A ps \in ProposeInputs(r) :
              LET t == on_propose(rep[r], ps, 0)
              IN  t.vote_out # Nil =>
                     /\ t.vote_out = ProposedBlock(rep[r], ps, 0)
                     /\ t.objs[t.vote_out].height > rep[r].vheight

\* The replica has voted for a block it received and for a block it
\* proposed.
C2_Witness ==
    \E r \in DOMAIN rep : \E i, j \in 1 .. Len(rep[r].votes) :
        /\ rep[r].votes[i] \in storage(rep[r])
        /\ rep[r].votes[j] \in storage(rep[r])
        /\ r \in rep[r].objs[rep[r].votes[i]].voted
        /\ rep[r].objs[rep[r].votes[j]].voted = {}

\* C3: a replica never votes for two blocks of one height: the heights of
\* the blocks it has voted for, self-votes included, increase strictly, and
\* vheight is the height of the last block voted for.
C3_NoEquivocation ==
    \A r \in DOMAIN rep :
        LET v == rep[r].votes
        IN  /\ \A i, j \in 1 .. Len(v) : i < j => HeightOf(v[i]) < HeightOf(v[j])
            /\ v # << >> => rep[r].vheight = HeightOf(v[Len(v)])
            /\ v = << >> => rep[r].vheight = 0

\* The replica has voted three times.
C3_Witness == \E r \in DOMAIN rep : Len(rep[r].votes) >= 3

\* C6: vheight never decreases in a step of the replica, whichever handler
\* runs and whether or not it ends in an error.
C6_VheightMonotone ==
    [][\A r \in DOMAIN rep : rep'[r].vheight >= rep[r].vheight]_vars

\* vheight has been raised twice, and a call that would throw is at hand.
C6_Witness ==
    \E r \in DOMAIN rep :
        /\ rep[r].vheight >= 2
        /\ \E h \in Hashes : /\ is_blk_delivered(rep[r], h)
                             /\ on_receive_proposal(rep[r], h).err # ""

\* C8: when hqc changes, by update (the QC of a proposal) or by
\* on_receive_vote (a QC formed here), the new block is strictly higher.
C8_HqcMonotone ==
    [][\A r \in DOMAIN rep :
          rep'[r].hqc # rep[r].hqc =>
              rep'[r].objs[rep'[r].hqc].height > rep[r].objs[rep[r].hqc].height]_vars

\* hqc has been raised by the QC of a proposal and then by a QC formed
\* here: it is a block with nmajority votes, above a block carrying a QC
\* for a block of height 1.
C8_Witness ==
    \E r \in DOMAIN rep :
        /\ rep[r].objs[rep[r].hqc].height = 2
        /\ Cardinality(rep[r].objs[rep[r].hqc].voted) >= nmajority
        /\ \E c \in storage(rep[r]) :
              /\ rep[r].objs[c].delivered
              /\ rep[r].objs[c].qc_ref # Nil
              /\ rep[r].objs[c].qc_ref # b0

\* What update(nblk), called from h's handler, commits: the blocks added
\* to the committed ones, oldest first.
NewCommits(s, t) == SubSeq(t.commits, Len(s.commits) + 1, Len(t.commits))

\* The blocks of q are a chain of primary parents, oldest first, ending
\* in p.
ChainTo(q, p) ==
    /\ q # << >>
    /\ q[Len(q)] = p
    /\ \A i \in 1 .. Len(q) - 1 : q[i + 1].parent_hashes[1] = q[i]

\* C4: update(nblk) commits only when nblk.qc_ref = blk and
\* nblk.parents[0] = blk, and blk.qc_ref = p and blk.parents[0] = p; the
\* blocks it commits are p and primary-parent ancestors of p.
C4_ThreeChainRule ==
    \A r \in DOMAIN rep : \A nblk \in Hashes : is_blk_delivered(rep[r], nblk) =>
        LET s   == rep[r]
            t   == update(Enter(s), nblk)
            blk == s.objs[nblk].qc_ref
            p   == t.bexec
        IN  t.commits # s.commits =>
               /\ s.objs[nblk].parents # << >>
               /\ s.objs[nblk].parents[1] = blk
               /\ s.objs[blk].qc_ref = p
               /\ s.objs[blk].parents[1] = p
               /\ ChainTo(NewCommits(s, t), p)

\* C4 as amended: update(nblk) commits only when nblk.qc_ref = blk, and
\* blk.qc_ref = p and blk.parents[0] = p; the blocks it commits are p and
\* primary-parent ancestors of p.
C4_CommitRuleAmended ==
    \A r \in DOMAIN rep : \A nblk \in Hashes : is_blk_delivered(rep[r], nblk) =>
        LET s   == rep[r]
            t   == update(Enter(s), nblk)
            blk == s.objs[nblk].qc_ref
            p   == t.bexec
        IN  t.commits # s.commits =>
               /\ blk # Nil
               /\ s.objs[blk].qc_ref = p
               /\ s.objs[blk].parents[1] = p
               /\ ChainTo(NewCommits(s, t), p)

\* A block has been committed by a proposal whose primary parent is not
\* the block its QC is for.
C4_Witness ==
    \E r \in DOMAIN rep :
        /\ rep[r].commits # << >>
        /\ \E nblk \in storage(rep[r]) :
              /\ rep[r].objs[nblk].delivered
              /\ rep[r].objs[nblk].qc_ref # Nil
              /\ rep[r].objs[nblk].qc_ref # b0
              /\ rep[r].objs[nblk].parents # << >>
              /\ rep[r].objs[nblk].parents[1] # rep[r].objs[nblk].qc_ref
              /\ rep[r].objs[rep[r].objs[nblk].qc_ref].parents # << >>
              /\ rep[r].objs[rep[r].objs[nblk].qc_ref].parents[1] = rep[r].bexec

\* C10: when on_deliver_blk(B) returns true, every hash of B.parent_hashes
\* is the hash of a delivered block, and so is the hash B's QC is for.
C10_DeliveryCompleteness ==
    \A r \in DOMAIN rep : \A h \in Undelivered(r) :
        LET d == HotStuffCore_on_deliver_blk(Enter(rep[r]), h)
        IN  d.valid =>
               /\ \A i \in 1 .. Len(h.parent_hashes) :
                     /\ h.parent_hashes[i] \in storage(d.st)
                     /\ d.st.objs[h.parent_hashes[i]].delivered
               /\ h.qc # << >> =>
                     /\ QcHash(h) \in storage(d.st)
                     /\ d.st.objs[QcHash(h)].delivered

\* C10 as amended: when on_deliver_blk(B) returns true, every hash of
\* B.parent_hashes is the hash of a delivered block, and the hash B's QC is
\* for is the hash of a block in storage, delivered or not.
C10_DeliveryAmended ==
    \A r \in DOMAIN rep : \A h \in Undelivered(r) :
        LET d == HotStuffCore_on_deliver_blk(Enter(rep[r]), h)
        IN  d.valid =>
               /\ d.st.objs[h].delivered
               /\ \A i \in 1 .. Len(h.parent_hashes) :
                     /\ h.parent_hashes[i] \in storage(d.st)
                     /\ d.st.objs[h.parent_hashes[i]].delivered
               /\ h.qc # << >> => QcHash(h) \in storage(d.st)

\* A block has been delivered whose QC is for a block in storage that is
\* not delivered.
C10_Witness ==
    \E r \in DOMAIN rep : \E h \in storage(rep[r]) :
        /\ rep[r].objs[h].delivered
        /\ h.qc # << >>
        /\ QcHash(h) \in storage(rep[r])
        /\ ~rep[r].objs[QcHash(h)].delivered

\* The blocks reached from h by primary parents, as the Block objects hold
\* them, h included.
RECURSIVE PrimaryChain(_, _)
PrimaryChain(s, h) ==
    IF s.objs[h].parents = << >> THEN {h}
    ELSE {h} \cup PrimaryChain(s, s.objs[h].parents[1])

\* C5: in every state, every primary-parent ancestor of a committed block
\* is committed, and a block that was committed is not undecided.
C5_CommittedForGood ==
    \A r \in DOMAIN rep : \A h \in storage(rep[r]) :
        /\ rep[r].objs[h].decision = 1 =>
               \A a \in PrimaryChain(rep[r], h) : rep[r].objs[a].decision = 1
        /\ h \in SeqRange(rep[r].commits) => rep[r].objs[h].decision = 1

\* C5 as amended: every primary-parent ancestor of a committed Block is
\* committed, and a Block that is committed stays committed as long as it
\* is in storage (prune can release it, and the block fetched again under
\* its hash is a new, undecided Block).
C5_ChainCommit ==
    /\ [](\A r \in DOMAIN rep : \A h \in storage(rep[r]) :
             rep[r].objs[h].decision = 1 =>
                 \A a \in PrimaryChain(rep[r], h) : rep[r].objs[a].decision = 1)
    /\ [][\A r \in DOMAIN rep : \A h \in storage(rep[r]) \cap storage(rep'[r]) :
             rep[r].objs[h].decision = 1 => rep'[r].objs[h].decision = 1]_vars

\* A committed block other than genesis is the primary parent of a
\* committed block.
C5_Witness ==
    \E r \in DOMAIN rep : \E h \in storage(rep[r]) :
        /\ rep[r].objs[h].decision = 1
        /\ rep[r].objs[h].parents # << >>
        /\ rep[r].objs[h].parents[1] # b0
        /\ rep[r].objs[rep[r].objs[h].parents[1]].decision = 1

\* C7: when bexec changes, the new block is strictly higher than the old
\* one, and the change is the assignment update() makes after committing:
\* blocks were committed in the step and bexec is the last of them.
C7_BexecMonotone ==
    [][\A r \in DOMAIN rep :
          rep'[r].bexec # rep[r].bexec =>
              /\ rep'[r].objs[rep'[r].bexec].height > rep[r].objs[rep[r].bexec].height
              /\ Len(rep'[r].commits) > Len(rep[r].commits)
              /\ rep'[r].bexec = rep'[r].commits[Len(rep'[r].commits)]]_vars

\* bexec is a block of height 2 whose primary parent was committed by an
\* earlier update or the same one.
C7_Witness ==
    \E r \in DOMAIN rep :
        /\ rep[r].objs[rep[r].bexec].height = 2
        /\ Len(rep[r].commits) = 2
        /\ rep[r].commits[2] = rep[r].bexec

\* The commands of the Finality events for block b, in the order emitted.
RECURSIVE CmdsFor(_, _)
CmdsFor(fin, b) ==
    IF fin = << >> THEN << >>
    ELSE IF Head(fin).blk_hash = b
         THEN << Head(fin).cmd_hash >> \o CmdsFor(Tail(fin), b)
         ELSE CmdsFor(Tail(fin), b)

\* C9: the blocks are committed oldest first, each the primary parent of
\* the next and none twice; the Finality events come in that order, the
\* heights never decreasing, and those of one block are its commands, each
\* once and in the order of cmds.
C9_CommitOrder ==
    \A r \in DOMAIN rep :
        LET c == rep[r].commits
            f == rep[r].fin
        IN  /\ \A i, j \in 1 .. Len(c) : i < j => c[i] # c[j]
            /\ \A i \in 1 .. Len(c) :
                  c[i].parent_hashes[1] = (IF i = 1 THEN b0 ELSE c[i - 1])
            /\ \A i, j \in 1 .. Len(f) : i < j =>
                  /\ f[i].cmd_height <= f[j].cmd_height
                  /\ \E k, l \in 1 .. Len(c) :
                        k <= l /\ f[i].blk_hash = c[k] /\ f[j].blk_hash = c[l]
            /\ \A i \in 1 .. Len(f) : f[i].blk_hash \in SeqRange(c)
            /\ \A i \in 1 .. Len(c) : CmdsFor(f, c[i]) = c[i].cmds

\* One update() has committed two blocks, both with commands: the second
\* carries no QC for the first.
C9_Witness ==
    \E r \in DOMAIN rep :
        /\ Len(rep[r].commits) = 2
        /\ rep[r].commits[2].qc # << rep[r].commits[1] >>
        /\ Len(rep[r].fin) = 3

\* C11: a block whose verification resolved with false is not delivered by
\* the pipeline (it is delivered only if the replica proposed it itself)
\* and is not handed to on_receive_proposal or on_receive_vote.
C11_VerifiedDelivery ==
    \A r \in DOMAIN rep : \A h \in rep[r].verify_false :
        /\ h \notin rep[r].handled
        /\ is_blk_delivered(rep[r], h) => r \in rep[r].objs[h].voted

\* The delivery of entry e is in progress: it waits for the fetch of its
\* block, or its promise::all waits for its promises.
InProgress(s, e) ==
    \/ e.hash \in s.conts
    \/ \E f \in Entries(s.blk_fetch_waiting, e.hash) :
           \E k \in 1 .. Len(f.waiters) : f.waiters[k].kind = "deliver"

\* C12: when the delivery of a block fails, by on_deliver_blk reporting
\* failure or by the rejection of the delivery of a parent, its waiters are
\* rejected and its entry leaves blk_delivery_waiting: once a handler has
\* returned, every entry of blk_delivery_waiting is of a delivery in
\* progress, one that will call on_deliver_blk or be rejected.
C12_FailurePropagation ==
    \A r \in DOMAIN rep : Alive(r) =>
        \A e \in rep[r].blk_delivery_waiting : InProgress(rep[r], e)

\* The blocks h refers to as parents, and theirs, h included.
RECURSIVE Ancestors(_)
Ancestors(h) ==
    {h} \cup UNION {Ancestors(h.parent_hashes[i]) : i \in 1 .. Len(h.parent_hashes)}

HasRun(s, t, w, x) ==
    \/ w.kind = "deliver" /\ w.blk \in t.conts \cup t.deliver_calls
    \/ w.kind = "all_fetch" /\ [of |-> w.blk, kind |-> "fetch", blk |-> x] \notin t.pms
    \/ w.kind = "all_deliver" /\ [of |-> w.blk, kind |-> "deliver", blk |-> x] \notin t.pms
    \/ w.kind \in {"proposal", "vote"} /\ (~is_blk_delivered(s, x) => x \in t.handled)
    \/ w.kind = "badvote"

HappyB1 == ChainBlock(b0)

HappyB2 == ChainBlock(HappyB1)

HappyB3 == ChainBlock(HappyB2)

\* The replica has committed B1 and given Finality for the command of B1.
HappyCommitted(s) ==
    /\ HappyB1 \in SeqRange(s.commits)
    /\ \E i \in 1 .. Len(s.fin) :
           s.fin[i].blk_hash = HappyB1 /\ s.fin[i].cmd_hash = HappyB1.cmds[1]

\* C15: with leader 0 proposing B1 on genesis, B2 on B1 with QC(B1) and B3
\* on B2 with QC(B2), and every message delivered, every replica eventually
\* commits B1 and gives Finality for its command; a replica commits B1 in
\* the step in which it processes B3, and has not committed it before.
C15_HappyThreeChain ==
    /\ <>(\A r \in DOMAIN rep : HappyCommitted(rep[r]))
    /\ [](\A r \in DOMAIN rep :
             HappyB1 \in SeqRange(rep[r].commits) => is_blk_delivered(rep[r], HappyB3))
    /\ [][\A r \in DOMAIN rep :
             (HappyB1 \notin SeqRange(rep[r].commits)
                 /\ HappyB1 \in SeqRange(rep'[r].commits))
             => (~is_blk_delivered(rep[r], HappyB3)
                 /\ is_blk_delivered(rep'[r], HappyB3))]_vars

\* Every replica has committed B1, the leader from the votes of the others.
C15_Witness ==
    /\ blocks = {HappyB1, HappyB2, HappyB3}
    /\ \A r \in DOMAIN rep : HappyCommitted(rep[r])
    /\ rep[Leader].qc_finished = << HappyB1, HappyB2 >>

\* C16: a delivered proposal higher than vheight whose ancestor at the
\* height of hqc is not hqc, hqc being the one the replica has when
\* on_receive_proposal is entered, gets no vote and leaves vheight as it
\* is, and update(blk) has run all the same.
C16_WrongBranch ==
    \A r \in DOMAIN rep : \A h \in Hashes : is_blk_delivered(rep[r], h) =>
        LET s == rep[r]
            t == on_receive_proposal(s, h)
            u == update(Enter(s), h)
        IN  (u.err = "" /\ s.objs[h].height > s.vheight /\ ~ExtendsHqc(s, h)) =>
               /\ t.vote_out = Nil
               /\ t.votes = s.votes
               /\ t.vheight = s.vheight
               /\ t.hqc = u.hqc /\ t.bexec = u.bexec /\ t.commits = u.commits

\* C16 as amended: the same for the hqc the replica has after update(blk),
\* which on_receive_proposal runs before it takes hqc.
C16_WrongBranchAmended ==
    \A r \in DOMAIN rep : \A h \in Hashes : is_blk_delivered(rep[r], h) =>
        LET s == rep[r]
            t == on_receive_proposal(s, h)
            u == update(Enter(s), h)
        IN  (u.err = "" /\ s.objs[h].height > s.vheight /\ ~ExtendsHqc(u, h)) =>
               /\ t.vote_out = Nil
               /\ t.votes = s.votes
               /\ t.vheight = s.vheight
               /\ t.hqc = u.hqc /\ t.bexec = u.bexec /\ t.commits = u.commits

\* A proposal higher than vheight and off the branch of hqc has been
\* handled: it is the one block that carries the QC of hqc, so that its
\* update has raised hqc, and the replica has not voted for it.
C16_Witness ==
    \E r \in DOMAIN rep : \E h \in blocks :
        /\ is_blk_delivered(rep[r], h)
        /\ h.qc # << >>
        /\ rep[r].hqc = QcHash(h)
        /\ rep[r].hqc # b0
        /\ \A g \in blocks \ {h} : g.qc # h.qc
        /\ rep[r].objs[h].height > rep[r].vheight
        /\ ~ExtendsHqc(rep[r], h)
        /\ h \notin SeqRange(rep[r].votes)

\* C17: of two votes of one voter for one block the first alone adds the
\* voter to voted and a part to self_qc; the second changes neither voted
\* nor self_qc nor hqc nor anything else, so that a QC that has been
\* computed holds the parts of nmajority distinct voters.
C17_DuplicateVote ==
    \A r \in DOMAIN rep : \A h \in Hashes : is_blk_delivered(rep[r], h) =>
        LET s == Enter(rep[r])
        IN  /\ \A v \in s.objs[h].voted : on_receive_vote(s, v, h) = s
            /\ \A v \in Replicas \ s.objs[h].voted :
                   LET t == on_receive_vote(s, v, h)
                   IN  Cardinality(s.objs[h].voted) < nmajority =>
                          /\ t.objs[h].voted = s.objs[h].voted \cup {v}
                          /\ t.objs[h].self_qc.parts = s.objs[h].self_qc.parts \cup {v}
                          /\ on_receive_vote(t, v, h) = t
            /\ (h # b0 /\ s.objs[h].self_qc.computed) =>
                   /\ s.objs[h].self_qc.parts = s.objs[h].voted
                   /\ Cardinality(s.objs[h].voted) >= nmajority

\* A block is one vote short of its QC, with the vote of another replica
\* counted: a second vote of that replica would complete the QC.
C17_Witness ==
    \E r \in DOMAIN rep : \E h \in blocks :
        /\ is_blk_delivered(rep[r], h)
        /\ Cardinality(rep[r].objs[h].voted) = nmajority - 1
        /\ rep[r].objs[h].voted \ {r} # {}

\* How many times h was finalized at the replica.
Finalizations(s, h) ==
    Cardinality({i \in 1 .. Len(s.qc_finished) : s.qc_finished[i] = h})

\* Of a block other than genesis voted holds at most nmajority voters,
\* self_qc is computed when it holds nmajority, and then every vote for the
\* block leaves the replica as it is.
QcComplete(s) ==
    \A h \in storage(s) \ {b0} :
        /\ Cardinality(s.objs[h].voted) <= nmajority
        /\ s.objs[h].self_qc.computed <=> Cardinality(s.objs[h].voted) = nmajority
        /\ (s.objs[h].delivered /\ Cardinality(s.objs[h].voted) >= nmajority) =>
               \A v \in Replicas : on_receive_vote(Enter(s), v, h) = Enter(s)

\* The block on_propose makes carries a QC only of a first parent whose
\* self_qc is computed.
QcCarried(r) ==
    \A ps \in ProposeInputs(r) :
        ProposedBlock(rep[r], ps, 0).qc # << >> =>
            rep[r].objs[ps[1]].self_qc.computed

\* A step finalizes the self_qc of h exactly when it brings voted of h to
\* nmajority voters, from one less, and hqc is then no lower than h.
QcFinishStep(s, t) ==
    /\ t.qc_finished # s.qc_finished =>
           \E h \in storage(s) \cap storage(t) :
               /\ t.qc_finished = Append(s.qc_finished, h)
               /\ Cardinality(s.objs[h].voted) = nmajority - 1
               /\ Cardinality(t.objs[h].voted) = nmajority
               /\ ~s.objs[h].self_qc.computed /\ t.objs[h].self_qc.computed
               /\ t.objs[t.hqc].height >= t.objs[h].height
    /\ \A h \in (storage(s) \cap storage(t)) \ {b0} :
           (Cardinality(s.objs[h].voted) < nmajority
               /\ Cardinality(t.objs[h].voted) >= nmajority)
           => t.qc_finished = Append(s.qc_finished, h)

C19_SkippedQc ==
    /\ [](\A r \in DOMAIN rep :
             IF rep[r].hqc = SkipB4
             THEN rep[r].commits = << SkipB1, SkipB2, SkipB3 >> /\ rep[r].bexec = SkipB3
             ELSE rep[r].commits = << >> /\ rep[r].bexec = b0)
    /\ [][\A r \in DOMAIN rep :
             rep'[r].commits # rep[r].commits =>
                 /\ is_blk_delivered(rep[r], SkipB5)
                 /\ rep'[r] = Enter(on_receive_proposal(rep[r], SkipB5))]_vars
    /\ <>(\A r \in DOMAIN rep : SkipB3 \in SeqRange(rep[r].commits))

\* The replica has voted for B1 to B5, each when it handled the proposal,
\* and has committed B1, B2 and B3 with B5.
C19_Witness ==
    \E r \in DOMAIN rep :
        /\ rep[r].votes = SkipChain
        /\ rep[r].hqc = SkipB4
        /\ rep[r].commits = << SkipB1, SkipB2, SkipB3 >>

\* The delivered blocks of the replica at most as high as k.
UpTo(s, k) == {h \in storage(s) : s.objs[h].delivered /\ s.objs[h].height <= k}

\* The block is held by something prune does not cut: by hqc or tails or
\* by the parents or the qc_ref of a block in storage.
HeldAfter(t, a) ==
    \/ a = t.hqc \/ a \in t.tails
    \/ \E c \in storage(t) \ {a} :
           a \in SeqRange(t.objs[c].parents) \/ t.objs[c].qc_ref = a

C21_UnratifiedParent ==
    \A r \in DOMAIN rep :
        /\ \A ps \in ProposeInputs(r) :
               LET s    == rep[r]
                   bnew == ProposedBlock(s, ps, 0)
                   t    == on_propose(s, ps, 0)
               IN  (/\ Cardinality(s.objs[ps[1]].voted) < nmajority
                    /\ s.objs[ps[1]].height + 1 > s.vheight) =>
                       /\ t.err = ""
                       /\ is_blk_delivered(t, bnew)
                       /\ t.objs[bnew].qc_ref = Nil
                       /\ t.vheight = t.objs[bnew].height
                       /\ s.id \in t.objs[bnew].voted
                       /\ t.bcast = bnew
        /\ \A h \in blocks :
               (is_blk_delivered(rep[r], h) /\ h.qc = << >>) =>
                   on_receive_proposal(rep[r], h).err = ""

\* C22: a vote for a delivered block whose self_qc is absent is discarded:
\* on_receive_vote leaves the voted set of the block, its self_qc and hqc as
\* they were.
C22_ForeignVoteDiscarded ==
    \A r \in DOMAIN rep :
        \A h \in {g \in blocks : is_blk_delivered(rep[r], g)} :
            \A v \in NextVoters(r, h) :
                ~rep[r].objs[h].self_qc.present =>
                    LET s == Enter(rep[r])
                        t == on_receive_vote(s, v, h)
                    IN  /\ t.objs[h].voted = s.objs[h].voted
                        /\ t.objs[h].self_qc = s.objs[h].self_qc
                        /\ t.hqc = s.hqc

\* -------------------------------------------------------- the command queue
\* The members of HotStuffBase around the command handler of start():
\* cmd_pending, the queue exec_command fills; cmd_pending_buffer;
\* decision_waiting, by command hash; beats, the command vectors held by
\* the continuations of pmaker->beat() that have not run; proposer, what
\* pmaker->get_proposer() returns.  History: submitted, the commands given
\* to exec_command, and buffered, the commands ever pushed on
\* cmd_pending_buffer.
Cmds == 1 .. MaxCmds

CmdFields ==
    [cmd_pending |-> << >>, cmd_pending_buffer |-> << >>,
     decision_waiting |-> {}, beats |-> << >>, proposer |-> 0,
     submitted |-> {}, buffered |-> {}]

\* The first n elements of a queue, and the queue without them.
FirstN(q, n) == SubSeq(q, 1, n)

DropN(q, n) == SubSeq(q, n + 1, Len(q))

\* The continuation of pmaker->beat() in the command handler, before
\* on_propose: with another proposer it does nothing, and cmds goes with
\* the lambda.
beat_other_proposer(s, cmds, proposer) == s

\* The handler registered on cmd_pending: the loop over q.try_dequeue(e),
\* left with `return true` when a batch is handed to pmaker->beat().
RECURSIVE cmd_handler(_)
cmd_handler(s) ==
    IF s.cmd_pending = << >> THEN s
    ELSE
    LET e  == Head(s.cmd_pending)
        s1 == [s EXCEPT !.cmd_pending = Tail(@)]
    IN  IF s1.proposer # s1.id THEN cmd_handler(s1)
        ELSE
        LET s2 == [s1 EXCEPT !.cmd_pending_buffer = Append(@, e),
                             !.decision_waiting = @ \cup {e},
                             !.buffered = @ \cup {e}]
        IN  IF Len(s2.cmd_pending_buffer) >= blk_size
            THEN [s2 EXCEPT
                    !.cmd_pending_buffer = DropN(@, blk_size),
                    !.beats = Append(@, FirstN(s2.cmd_pending_buffer, blk_size))]
            ELSE cmd_handler(s2)

\* HotStuffBase::exec_command
ExecCommand(r, c) ==
    /\ c \notin rep[r].submitted
    /\ rep' = [rep EXCEPT ![r].cmd_pending = Append(@, c),
                          ![r].submitted = @ \cup {c}]
    /\ UNCHANGED blocks

\* The event loop runs the handler of cmd_pending when the queue holds a
\* command.
CmdHandler(r) ==
    /\ rep[r].cmd_pending # << >>
    /\ Ran(r, cmd_handler(Enter(rep[r])))
    /\ UNCHANGED blocks

\* The pacemaker names another proposer.
PaceProposer(r, p) ==
    /\ rep[r].proposer # p
    /\ rep' = [rep EXCEPT ![r].proposer = p]
    /\ UNCHANGED blocks

\* The promise of the i-th pending pmaker->beat() resolves with the local
\* replica: on_propose(cmds, pmaker->get_parents()), the parents any
\* delivered block and, with it, any tail.
BeatPropose(r, i, parents) ==
    /\ i \in 1 .. Len(rep[r].beats)
    /\ LET cmds == rep[r].beats[i]
           t    == on_propose_cmds([rep[r] EXCEPT !.beats = FirstN(@, i - 1) \o DropN(@, i)],
                                   cmds, parents, 0)
       IN  /\ blocks' = blocks \cup {[ProposedBlock(rep[r], parents, 0) EXCEPT !.cmds = cmds]}
           /\ Ran(r, t)

\* The promise of the i-th pending pmaker->beat() resolves with another
\* replica.
BeatOther(r, i, proposer) ==
    /\ i \in 1 .. Len(rep[r].beats)
    /\ proposer # rep[r].id
    /\ Ran(r, beat_other_proposer(
                  [Enter(rep[r]) EXCEPT !.beats = FirstN(@, i - 1) \o DropN(@, i)],
                  rep[r].beats[i], proposer))
    /\ UNCHANGED blocks

InitCmd ==
    /\ blocks = {}
    /\ rep = [r \in {0} |-> InitCore(r) @@ CmdFields]

NextCmd ==
    \/ \E r \in DOMAIN rep, c \in Cmds : ExecCommand(r, c)
    \/ \E r \in DOMAIN rep : CmdHandler(r)
    \/ \E r \in DOMAIN rep, p \in {0, 1} : PaceProposer(r, p)
    \/ \E r \in DOMAIN rep, i \in 1 .. MaxCmds :
           \E ps \in ParentLists({h \in Hashes : is_blk_delivered(rep[r], h)}, rep[r].tails) :
               BeatPropose(r, i, ps)
    \/ \E r \in DOMAIN rep, i \in 1 .. MaxCmds, p \in Replicas : BeatOther(r, i, p)
    \/ \E r \in DOMAIN rep, h \in Hashes, v \in Replicas : ReceiveVote(r, v, h)

\* The replica with its command queue and the votes for what it proposes.
SpecCmd == InitCmd /\ [][NextCmd]_vars

\* C23: a command that was pushed on cmd_pending_buffer is in the buffer,
\* in the batch of a beat that has not resolved, or among the commands of a
\* block given to on_propose: none is dropped without being proposed, and
\* after a beat that resolves to another proposer its batch is in the
\* buffer again.
C23_CommandRetention ==
    \A r \in DOMAIN rep : \A c \in rep[r].buffered :
        \/ c \in SeqRange(rep[r].cmd_pending_buffer)
        \/ \E i \in 1 .. Len(rep[r].beats) : c \in SeqRange(rep[r].beats[i])
        \/ \E b \in blocks : c \in SeqRange(b.cmds)

\* C24: for a committed block with k commands the Finality emitted for its
\* i-th command, i = 0 .. k-1, carries cmd_index i, the height of the block,
\* the i-th command hash and the hash of the block.
C24_FinalityFields ==
    \A r \in DOMAIN rep : \A b \in SeqRange(rep[r].commits) :
        \A i \in 1 .. Len(b.cmds) :
            \E j \in 1 .. Len(rep[r].fin) :
                /\ rep[r].fin[j].blk_hash = b
                /\ rep[r].fin[j].cmd_hash = b.cmds[i]
                /\ rep[r].fin[j].cmd_height = HeightOf(b)
                /\ rep[r].fin[j].cmd_idx = i - 1

\* ------------------------------------------------------------------ start-up
\* HotStuffBase::start(replicas, ...) of the replica whose listen_addr is
\* that of replicas[self]: n the size of replicas, i the index of the loop,
\* peers the addresses pushed on peers, voted0 the voters of genesis;
\* nfaulty and nmajority are set when the loop is over.
StartState(n, self) ==
    [n |-> n, self |-> self, i |-> 0, peers |-> {}, voted0 |-> {},
     inited |-> FALSE, nfaulty |-> 0, nmajority |-> 0]

\* One turn of the loop of start(): add_replica(i, ...), and the address
\* joins peers when it is not listen_addr.
StartAddReplica(r) ==
    /\ rep[r].i < rep[r].n
    /\ rep' = [rep EXCEPT ![r].i = @ + 1,
                          ![r].voted0 = @ \cup {rep[r].i},
                          ![r].peers = IF rep[r].i # rep[r].self
                                       THEN @ \cup {rep[r].i} ELSE @]
    /\ UNCHANGED blocks

\* After the loop: nfaulty = peers.size() / 2; on_init(nfaulty, delta).
StartOnInit(r) ==
    /\ rep[r].i = rep[r].n
    /\ ~rep[r].inited
    /\ LET nf == start_nfaulty(Cardinality(rep[r].peers))
       IN  rep' = [rep EXCEPT ![r].nfaulty = nf,
                              ![r].nmajority = on_init_nmajority(nf),
                              ![r].inited = TRUE]
    /\ UNCHANGED blocks

InitStart ==
    /\ blocks = {}
    /\ \E n \in 1 .. MaxStart : \E self \in 0 .. n - 1 :
           rep = [r \in {0} |-> StartState(n, self)]

NextStart ==
    \/ \E r \in DOMAIN rep : StartAddReplica(r)
    \/ \E r \in DOMAIN rep : StartOnInit(r)

\* The start of a replica among 1 .. MaxStart replicas.
SpecStart == InitStart /\ [][NextStart]_vars

UncleX1 == NewContent(<< b0 >>, << >>, 0)

UncleX2 == NewContent(<< UncleX1 >>, << >>, 0)

UncleU == NewContent(<< UncleX2 >>, << >>, 0)

UncleB1 == NewContent(<< b0, UncleU >>, << b0 >>, 0)

UncleB2 == ChainBlock(UncleB1)

UncleB3 == ChainBlock(UncleB2)

UncleZ == NewContent(<< UncleU >>, << b0 >>, 0)

UncleBlocks == << UncleX1, UncleX2, UncleU, UncleB1, UncleB2, UncleB3, UncleZ >>

\* The replicas that are not modelled by their code make the next of these
\* blocks whose parents exist.
UnclePropose ==
    \E i \in 1 .. Len(UncleBlocks) :
        /\ UncleBlocks[i] \notin blocks
        /\ SeqRange(UncleBlocks[i].parent_hashes) \subseteq Hashes
        /\ blocks' = blocks \cup {UncleBlocks[i]}
        /\ UNCHANGED rep

UnclePrune == \E r \in DOMAIN rep, st \in 0 .. MaxStaleness : Prune(r, st)

NextUncle == UnclePropose \/ SkipRecv \/ SkipDeliver \/ SkipReceive \/ UnclePrune

\* A replica that receives those blocks and their proposals, and prunes.
SpecUncle == Init /\ [][NextUncle]_vars

\* The calls of update the replica can make in this state, by
\* on_receive_proposal of a delivered block and by on_propose, none of
\* which takes parents[0] of a block without parents.
WalksDefined(r) ==
    /\ \A h \in Hashes :
           is_blk_delivered(rep[r], h) =>
               on_receive_proposal(rep[r], h).err # "parents[0] of a block without parents"
    /\ \A ps \in ParentLists({h \in Hashes : is_blk_delivered(rep[r], h)}, rep[r].tails) :
           on_propose(rep[r], ps, 0).err # "parents[0] of a block without parents"

\* C26: in every reachable state, after any prune, neither the commit walk
\* of update nor the branch walk of on_receive_proposal takes parents[0]
\* of a block without parents, and hqc is no lower than bexec.
C26_ParentWalksDefined ==
    \A r \in DOMAIN rep :
        /\ WalksDefined(r)
        /\ rep[r].objs[rep[r].hqc].height >= rep[r].objs[rep[r].bexec].height

\* C27: blk_fetch_waiting holds an entry for a hash only while the block of
\* that hash is absent from storage: whatever puts the block in storage, a
\* RespBlock or a Proposal that carries it, resolves and removes the entry,
\* and no callback waits for the fetch of a block that is stored.
C27_NoStaleFetch ==
    \A r \in DOMAIN rep :
        Alive(r) =>
            \A e \in rep[r].blk_fetch_waiting : ~is_blk_fetched(rep[r], e.hash)

====
